---------------------------- MODULE Spec2Model ----------------------------
(***************************************************************************)
(* A model of the maintainer dashboard component                           *)
(*   src/frontend/src/features/maintainers/components/dashboard/           *)
(*   DashboardTab.tsx                                                      *)
(* The component fetches the issues and pull requests of the selected      *)
(* projects (loadData), keeps them in two unified collections, and derives *)
(* summary metrics, an activity feed and a six-month chart from them.      *)
(*                                                                         *)
(* Conventions                                                             *)
(*  - A timestamp (Date.getTime(), milliseconds since the epoch) is the    *)
(*    pair <<day, ms>> standing for day * 86400000 + ms, 0 <= ms <         *)
(*    86400000: the value itself exceeds the 32-bit integers of TLC.  NaN (an *)
(*    Invalid Date) is the empty tuple.                                    *)
(*  - A fetched record is a TLA+ record whose DOMAIN holds exactly the     *)
(*    properties the JSON object has; an absent property reads as          *)
(*    undefined in the code and is tested here with Has.  The pass-through *)
(*    properties number and title are left out.                            *)
(*  - Local time is UTC (new Date(y, m, 1) is midnight UTC).               *)
(*  - The helpers formatTimeAgo and parseTimeAgo are resolved to their     *)
(*    definitions wherever they are called; the order of the const         *)
(*    declarations inside the component body is not modelled.              *)
(***************************************************************************)
EXTENDS Integers, Sequences, FiniteSets

VARIABLES
    lifecycle,          \* "rendered" (first render done), "mounted", "unmounted"
    selectedProjects,   \* prop: the ordered selection (project ids)
    onRefresh,          \* prop: TRUE iff a refresh callback is registered
    timers,             \* active setInterval timers: the selection each one's loadData closed over
    issues,             \* useState issues
    prs,                \* useState prs
    isLoading,          \* useState isLoading
    cycles,             \* loadData calls suspended at the await of line 43
    started,            \* number of loadData calls so far
    lastWrite,          \* history: the cycle that last wrote issues/prs (id 0: none yet)
    now,                \* the evaluation time new Date() of the derived values
    memo,               \* the useMemo values stats / activities / chartData (lines 106-274)
    props               \* what the last render handed to StatsCard / ActivityItem / ApplicationsChart

vars == <<lifecycle, selectedProjects, onRefresh, timers, issues, prs, isLoading,
          cycles, started, lastWrite, now, memo, props>>

-----------------------------------------------------------------------------
(* Bounds of the model *)

\* loadData calls in one behaviour
MaxCycles == 2
\* records of a response drawn from a pool of records
MaxLen == 2
\* records of the longest response: more than the 10 the feed looks at
FeedLen == 11

-----------------------------------------------------------------------------
(* Time *)

MsPerMinute == 60000
MsPerHour == 3600000
MsPerDay == 86400000
DaysPerMonth == 30
\* 7 * 24 * 60 * 60 * 1000, line 108
SevenDaysMs == 7 * 24 * 60 * 60 * 1000

NaN == <<>>

IsNaN(t) == t = NaN

\* <<day, ms>> brought back to 0 <= ms < MsPerDay
Norm(t) == <<t[1] + (t[2] \div MsPerDay), t[2] % MsPerDay>>

\* a.getTime() < b.getTime(), both valid
Before(a, b) == a[1] < b[1] \/ (a[1] = b[1] /\ a[2] < b[2])

\* a >= b on Dates: false as soon as one side is NaN
AtOrAfter(a, b) == ~IsNaN(a) /\ ~IsNaN(b) /\ ~Before(a, b)

\* t.getTime() - ms, for 0 <= ms < 2^31
MinusMs(t, ms) == Norm(<<t[1], t[2] - ms>>)

\* t.getTime() - days * 86400000
MinusDays(t, days) == <<t[1] - days, t[2]>>

\* now.getTime() - date.getTime() as <<days, ms>>, days = Math.floor(diffMs / 86400000)
Diff(a, b) == Norm(<<a[1] - b[1], a[2] - b[2]>>)

IsLeap(y) == (y % 4 = 0 /\ y % 100 # 0) \/ y % 400 = 0

LeapsBefore(y) == ((y - 1) \div 4) - ((y - 1) \div 100) + ((y - 1) \div 400)

CumDays == <<0, 31, 59, 90, 120, 151, 181, 212, 243, 273, 304, 334>>

\* Day number (days since 1970-01-01) of day d of month m0 (0-based, any integer:
\* the Date constructor carries an out-of-range month into the year) of year y.
DayNumber(y, m0, d) ==
    LET yy == y + (m0 \div 12)
        mm == m0 % 12
    IN  365 * (yy - 1970) + LeapsBefore(yy) - LeapsBefore(1970)
        + CumDays[mm + 1] + (IF IsLeap(yy) /\ mm > 1 THEN 1 ELSE 0) + (d - 1)

\* new Date(y, m0, 1)
MonthStart(y, m0) == <<DayNumber(y, m0, 1), 0>>

Years == 2020..2030

\* t.getFullYear()
getFullYear(t) == CHOOSE y \in Years : DayNumber(y, 0, 1) <= t[1] /\ t[1] < DayNumber(y + 1, 0, 1)

\* t.getMonth(), 0-based
getMonth(t) ==
    CHOOSE month \in {CHOOSE m \in 0..11 : DayNumber(y, m, 1) <= t[1] /\ t[1] < DayNumber(y, m + 1, 1) :
                         y \in {getFullYear(t)}} : TRUE

-----------------------------------------------------------------------------
(* Records *)

Has(r, f) == f \in DOMAIN r

\* a.updated_at ? new Date(a.updated_at).getTime() : new Date(a.last_seen_at).getTime()
EffectiveTime(r) ==
    IF Has(r, "updated_at") THEN r.updated_at
    ELSE IF Has(r, "last_seen_at") THEN r.last_seen_at
    ELSE NaN

\* issue.comments_count || 0
CommentsOf(r) == IF Has(r, "comments_count") THEN r.comments_count ELSE 0

\* Tag as it would be with { projectName: project.github_full_name, ...record }
TagBeforeSpread(r, name) ==
    [f \in DOMAIN r \cup {"projectName"} |-> IF f \in DOMAIN r THEN r[f] ELSE name]

\* { ...record, projectName: project.github_full_name }
Tag(r, name) == [f \in DOMAIN r \cup {"projectName"} |->
                    IF f = "projectName" THEN name ELSE r[f]]

\* project.github_full_name
FullName(p) == IF p = 1 THEN "org/one" ELSE IF p = 2 THEN "org/two" ELSE "org/other"

-----------------------------------------------------------------------------
(* Array.prototype.sort *)

\* The sign of every comparison the engine can make: sgn[i][j] < 0 puts s[i] first.
\* A comparator result of NaN counts as +0 (ECMAScript SortCompare).
Consistent(n, sgn) ==
    \A i, j, k \in 1..n :
        /\ (sgn[i][j] < 0) = (sgn[j][i] > 0)
        /\ (sgn[i][j] = 0 /\ sgn[j][k] = 0) => sgn[i][k] = 0
        /\ (sgn[i][j] < 0 /\ sgn[j][k] < 0) => sgn[i][k] < 0
        /\ (sgn[i][j] = 0 /\ sgn[j][k] < 0) => sgn[i][k] < 0
        /\ (sgn[i][j] < 0 /\ sgn[j][k] = 0) => sgn[i][k] < 0

\* The stable sort: s[i] goes behind every element that sorts before it and
\* every equal element that stood before it.
StableSort(s, sgn) ==
    LET n == Len(s)
        pos(i) == 1 + Cardinality({j \in 1..n :
                        sgn[j][i] < 0 \/ (sgn[j][i] = 0 /\ j < i)})
    IN  [k \in 1..n |-> s[CHOOSE i \in 1..n : pos(i) = k]]

Orderings(s) ==
    LET n == Len(s)
    IN  {[k \in 1..n |-> s[p[k]]] :
            p \in {q \in [1..n -> 1..n] : \A a, b \in 1..n : q[a] = q[b] => a = b}}

\* What sort may leave in the array: the stable order when the comparator is
\* consistent on the elements, otherwise an implementation-defined order.
\* (m is sgn evaluated once.)
ArraySort(s, sgn) ==
    UNION {IF Consistent(Len(s), m) THEN {StableSort(s, m)} ELSE Orderings(s) : m \in {sgn}}

\* (a, b) => dateB - dateA, lines 74-78 and 80-84
CompareRecords(a, b) ==
    LET dateA == EffectiveTime(a)
        dateB == EffectiveTime(b)
    IN  IF IsNaN(dateA) \/ IsNaN(dateB) THEN 0
        ELSE IF Before(dateA, dateB) THEN 1
        ELSE IF Before(dateB, dateA) THEN -1
        ELSE 0

\* allIssues.sort(...) / allPRs.sort(...): the set of arrays it may leave
SortRecords(s) ==
    UNION {ArraySort(v, [i \in 1..Len(v) |->
                            [j \in 1..Len(v) |-> CompareRecords(v[i], v[j])] \o <<>>] \o <<>>) :
              v \in {s}}

RECURSIVE Flat(_)
\* issuesData.flat()
Flat(lists) == IF lists = <<>> THEN <<>> ELSE Head(lists) \o Flat(Tail(lists))

\* arr.slice(0, n)
Slice(s, n) == SubSeq(s, 1, IF Len(s) < n THEN Len(s) ELSE n)

-----------------------------------------------------------------------------
(* stats, lines 106-165 *)

RECURSIVE SumComments(_)
\* reduce((sum, issue) => sum + (issue.comments_count || 0), 0)
SumComments(s) == IF s = <<>> THEN 0 ELSE CommentsOf(Head(s)) + SumComments(Tail(s))

\* Recent as it would be with updatedAt > sevenDaysAgo
RecentStrict(s, t) ==
    LET sevenDaysAgo == MinusMs(t, SevenDaysMs)
    IN  SelectSeq(s, LAMBDA r : ~IsNaN(EffectiveTime(r)) /\ Before(sevenDaysAgo, EffectiveTime(r)))

\* issues.filter(issue => updatedAt >= sevenDaysAgo)
Recent(s, t) ==
    LET sevenDaysAgo == MinusMs(t, SevenDaysMs)
    IN  SelectSeq(s, LAMBDA r : AtOrAfter(EffectiveTime(r), sevenDaysAgo))

\* Stats as it would be with change: 100 for the two PR metrics
StatsFixedChange(iss, pulls, t) ==
    LET recentIssues == Recent(iss, t)
        recentPRs == Recent(pulls, t)
        openedPRs == SelectSeq(recentPRs, LAMBDA r : Has(r, "state") /\ r.state = "open")
        mergedPRs == SelectSeq(recentPRs, LAMBDA r : Has(r, "merged") /\ r.merged = TRUE)
    IN  << [id |-> 1, title |-> "Repository Views", value |-> 0, change |-> -100],
           [id |-> 2, title |-> "Issue Views", value |-> Len(recentIssues), change |-> 0],
           [id |-> 3, title |-> "Issue Applications", value |-> SumComments(recentIssues),
            change |-> 0],
           [id |-> 4, title |-> "Pull Requests Opened", value |-> Len(openedPRs),
            change |-> 100],
           [id |-> 5, title |-> "Pull Requests Merged", value |-> Len(mergedPRs),
            change |-> 100] >>

Stats(iss, pulls, t) ==
    LET recentIssues == Recent(iss, t)
        recentPRs == Recent(pulls, t)
        openedPRs == SelectSeq(recentPRs, LAMBDA r : Has(r, "state") /\ r.state = "open")
        mergedPRs == SelectSeq(recentPRs, LAMBDA r : Has(r, "merged") /\ r.merged = TRUE)
    IN  << [id |-> 1, title |-> "Repository Views", value |-> 0, change |-> -100],
           [id |-> 2, title |-> "Issue Views", value |-> Len(recentIssues), change |-> 0],
           [id |-> 3, title |-> "Issue Applications", value |-> SumComments(recentIssues),
            change |-> 0],
           [id |-> 4, title |-> "Pull Requests Opened", value |-> Len(openedPRs),
            change |-> IF Len(openedPRs) > 0 THEN 100 ELSE 0],
           [id |-> 5, title |-> "Pull Requests Merged", value |-> Len(mergedPRs),
            change |-> IF Len(mergedPRs) > 0 THEN 100 ELSE 0] >>

-----------------------------------------------------------------------------
(* formatTimeAgo / parseTimeAgo, lines 210-245 *)

\* A label `${count} ${word} ago` is [count |-> <<n>>, word |-> w]; the count
\* printed as "NaN" is <<>>.  'just now' is [word |-> "just now"].
PluralWord(n, w) ==
    IF n = 1 THEN w
    ELSE IF w = "minute" THEN "minutes"
    ELSE IF w = "hour" THEN "hours"
    ELSE IF w = "day" THEN "days"
    ELSE "months"

formatTimeAgo(date, t) ==
    IF IsNaN(date)
    THEN \* every diff is NaN, every comparison false: `${NaN} month${'s'} ago`
         [count |-> NaN, word |-> "months"]
    ELSE LET diff == Diff(t, date)
             diffMins == diff[1] * (MsPerDay \div MsPerMinute) + (diff[2] \div MsPerMinute)
             diffHours == diff[1] * (MsPerDay \div MsPerHour) + (diff[2] \div MsPerHour)
             diffDays == diff[1]
             diffMonths == diffDays \div DaysPerMonth
         IN  IF diffMins < 1 THEN [word |-> "just now"]
             ELSE IF diffMins < 60 THEN [count |-> <<diffMins>>, word |-> PluralWord(diffMins, "minute")]
             ELSE IF diffHours < 24 THEN [count |-> <<diffHours>>, word |-> PluralWord(diffHours, "hour")]
             ELSE IF diffDays < 30 THEN [count |-> <<diffDays>>, word |-> PluralWord(diffDays, "day")]
             ELSE [count |-> <<diffMonths>>, word |-> PluralWord(diffMonths, "month")]

\* timeAgo.includes(sub), sub one of 'minute', 'hour', 'day', 'month'
Includes(label, sub) == label.word \in {sub, PluralWord(2, sub)}

\* parseInt(timeAgo) || 0
ParseCount(label) == IF label.count = NaN THEN 0 ELSE label.count[1]

\* parseTimeAgo as it would be if the hour branch used 60000
parseTimeAgoHoursAsMinutes(label, t) ==
    IF Includes(label, "minute") \/ Includes(label, "hour")
    THEN LET mins == ParseCount(label)
         IN  Norm(<<t[1] - (mins \div (MsPerDay \div MsPerMinute)),
                    t[2] - (mins % (MsPerDay \div MsPerMinute)) * MsPerMinute>>)
    ELSE IF Includes(label, "day")
    THEN MinusDays(t, ParseCount(label))
    ELSE IF Includes(label, "month")
    THEN MinusDays(t, ParseCount(label) * DaysPerMonth)
    ELSE t

parseTimeAgo(label, t) ==
    IF Includes(label, "minute")
    THEN LET mins == ParseCount(label)
         IN  Norm(<<t[1] - (mins \div (MsPerDay \div MsPerMinute)),
                    t[2] - (mins % (MsPerDay \div MsPerMinute)) * MsPerMinute>>)
    ELSE IF Includes(label, "hour")
    THEN LET hours == ParseCount(label)
         IN  Norm(<<t[1] - (hours \div (MsPerDay \div MsPerHour)),
                    t[2] - (hours % (MsPerDay \div MsPerHour)) * MsPerHour>>)
    ELSE IF Includes(label, "day")
    THEN MinusDays(t, ParseCount(label))
    ELSE IF Includes(label, "month")
    THEN MinusDays(t, ParseCount(label) * DaysPerMonth)
    ELSE t

-----------------------------------------------------------------------------
(* activities, lines 168-207 *)

\* prs.slice(0, 10) / issues.slice(0, 10)
FeedCandidates == 10
\* combined.slice(0, 5)
FeedSize == 5

\* An Activity; label is [text, n]: 'Merged' / 'Open' / 'Closed' for a PR,
\* `${n} comment(s)` or null for an issue.
PrActivity(pr, t) ==
    [id |-> pr.github_pr_id,
     type |-> "pr",
     label |-> [text |-> IF Has(pr, "merged") /\ pr.merged = TRUE THEN "Merged"
                         ELSE IF Has(pr, "state") /\ pr.state = "open" THEN "Open"
                         ELSE "Closed",
                n |-> 0],
     timeAgo |-> formatTimeAgo(EffectiveTime(pr), t)]

IssueActivity(issue, t) ==
    [id |-> issue.github_issue_id,
     type |-> "issue",
     label |-> IF CommentsOf(issue) > 0
               THEN [text |-> IF CommentsOf(issue) # 1 THEN "comments" ELSE "comment",
                     n |-> CommentsOf(issue)]
               ELSE [text |-> "null", n |-> 0],
     timeAgo |-> formatTimeAgo(EffectiveTime(issue), t)]

\* combined after the two forEach loops: PRs first, then issues
Combined(iss, pulls, t) ==
    LET p == Slice(pulls, FeedCandidates)
        i == Slice(iss, FeedCandidates)
    IN  [k \in 1..Len(p) |-> PrActivity(p[k], t)] \o [k \in 1..Len(i) |-> IssueActivity(i[k], t)]

\* CompareActivities as it would be with timeA - timeB
CompareActivitiesAscending(a, b, t) ==
    LET timeA == parseTimeAgo(a.timeAgo, t)
        timeB == parseTimeAgo(b.timeAgo, t)
    IN  IF Before(timeA, timeB) THEN -1
        ELSE IF Before(timeB, timeA) THEN 1
        ELSE 0

\* (a, b) => parseTimeAgo(b.timeAgo) - parseTimeAgo(a.timeAgo), lines 200-204
CompareActivities(a, b, t) ==
    LET timeA == parseTimeAgo(a.timeAgo, t)
        timeB == parseTimeAgo(b.timeAgo, t)
    IN  IF Before(timeA, timeB) THEN 1
        ELSE IF Before(timeB, timeA) THEN -1
        ELSE 0

\* combined.sort(...): the set of arrays it may leave
SortActivities(s, t) ==
    UNION {ArraySort(v, [i \in 1..Len(v) |->
                            [j \in 1..Len(v) |-> CompareActivities(v[i], v[j], t)] \o <<>>] \o <<>>) :
              v \in {s}}

\* the values the activities memo can take
Activities(iss, pulls, t) ==
    {Slice(sorted, FeedSize) : sorted \in SortActivities(Combined(iss, pulls, t), t)}

-----------------------------------------------------------------------------
(* chartData, lines 248-274 *)

months == <<"May", "Jun", "Jul", "Aug", "Sep", "Oct">>

\* InMonth as it would be with createdAt <= nextMonth
InMonthInclusive(r, monthDate, nextMonth) ==
    LET createdAt == EffectiveTime(r)
    IN  AtOrAfter(createdAt, monthDate) /\ AtOrAfter(nextMonth, createdAt)

\* createdAt >= monthDate && createdAt < nextMonth
InMonth(r, monthDate, nextMonth) ==
    LET createdAt == EffectiveTime(r)
    IN  AtOrAfter(createdAt, monthDate) /\ Before(createdAt, nextMonth)

\* new Date(now.getFullYear(), now.getMonth() - (5 - index), 1), index 0-based,
\* year and month being now.getFullYear() and now.getMonth()
monthDate(index, year, month) == MonthStart(year, month - (5 - index))

\* new Date(now.getFullYear(), now.getMonth() - (4 - index), 1)
nextMonth(index, year, month) == MonthStart(year, month - (4 - index))

\* months.map((month, index) => ...), for the bucket [from, to) of one index
ChartPoint(month, from, to, iss, pulls) ==
    LET monthIssues == SelectSeq(iss, LAMBDA r : InMonth(r, from, to))
        monthPRs == SelectSeq(pulls, LAMBDA r : InMonth(r, from, to))
        mergedPRs == SelectSeq(monthPRs, LAMBDA r : Has(r, "merged") /\ r.merged = TRUE)
    IN  [month |-> month,
         applications |-> SumComments(monthIssues),
         merged |-> Len(mergedPRs)]

ChartData(iss, pulls, t) ==
    CHOOSE chart \in
        {[k \in 1..Len(months) |->
            ChartPoint(months[k], monthDate(k - 1, y, m), nextMonth(k - 1, y, m), iss, pulls)] :
                y \in {getFullYear(t)}, m \in {getMonth(t)}} : TRUE

-----------------------------------------------------------------------------
(* The second declarations of stats, activities and chartData, lines 276-371, *)
(* which are the ones the JSX of lines 373-411 reads.                         *)

MockStats ==
    << [id |-> 1, title |-> "Repository Views", value |-> 0, change |-> -100],
       [id |-> 2, title |-> "Issue Views", value |-> 0, change |-> -100],
       [id |-> 3, title |-> "Issue Applications", value |-> 0, change |-> 0],
       [id |-> 4, title |-> "Pull Requests Opened", value |-> 1, change |-> 100],
       [id |-> 5, title |-> "Pull Requests Merged", value |-> 1, change |-> 100] >>

MockActivities ==
    << [id |-> 1, type |-> "pr", label |-> [text |-> "null", n |-> 0],
        timeAgo |-> [count |-> <<2>>, word |-> "days"]],
       [id |-> 2, type |-> "issue", label |-> [text |-> "new applicant", n |-> 1],
        timeAgo |-> [count |-> <<3>>, word |-> "months"]],
       [id |-> 3, type |-> "pr", label |-> [text |-> "null", n |-> 0],
        timeAgo |-> [count |-> <<3>>, word |-> "months"]],
       [id |-> 4, type |-> "pr", label |-> [text |-> "null", n |-> 0],
        timeAgo |-> [count |-> <<3>>, word |-> "months"]],
       [id |-> 5, type |-> "issue", label |-> [text |-> "null", n |-> 0],
        timeAgo |-> [count |-> <<5>>, word |-> "months"]] >>

MockChartData ==
    << [month |-> "May", applications |-> 12, merged |-> 0],
       [month |-> "Jun", applications |-> 18, merged |-> 0],
       [month |-> "Jul", applications |-> 45, merged |-> 0],
       [month |-> "Aug", applications |-> 32, merged |-> 0],
       [month |-> "Sep", applications |-> 38, merged |-> 8],
       [month |-> "Oct", applications |-> 28, merged |-> 12] >>

\* The render that follows a state change: the memos are recomputed from the
\* collections, and the JSX is handed the later declarations.
Render(iss, pulls) ==
    /\ \E acts \in Activities(iss, pulls, now) :
          memo' = [stats |-> Stats(iss, pulls, now),
                   activities |-> acts,
                   chartData |-> ChartData(iss, pulls, now)]
    /\ props' = [stats |-> MockStats, activities |-> MockActivities, chartData |-> MockChartData]

-----------------------------------------------------------------------------
(* loadData, lines 32-93 *)

\* One request of a cycle: pending, or settled with the list its map callback returned
Pending == [status |-> "pending", value |-> <<>>]

Mounted == lifecycle = "mounted"

Settled(c) ==
    /\ \A k \in DOMAIN c.issuesData : c.issuesData[k].status # "pending"
    /\ \A k \in DOMAIN c.prsData : c.prsData[k].status # "pending"

Values(data) == [k \in DOMAIN data |-> data[k].value]

\* response.issues || [] and response.prs || []
ListOf(response, field) == IF Has(response, field) THEN response[field] ELSE <<>>

\* (response.issues || []).map(issue => ({ ...issue, projectName: project.github_full_name }))
Tagged(response, field, project) ==
    LET list == ListOf(response, field)
    IN  [j \in 1..Len(list) |-> Tag(list[j], FullName(project))]

\* StartCycle as it would be without setIssues([]) and setPrs([]) on the
\* empty selection
StartCycleWithoutReset(sel) ==
    /\ started < MaxCycles
    /\ started' = started + 1
    /\ IF Len(sel) = 0
       THEN /\ isLoading' = FALSE
            /\ cycles' = cycles
            /\ UNCHANGED <<issues, prs, lastWrite, memo, props>>
       ELSE /\ isLoading' = TRUE
            /\ cycles' = cycles \cup
                  {[id |-> started + 1, sel |-> sel,
                    issuesData |-> [k \in 1..Len(sel) |-> Pending],
                    prsData |-> [k \in 1..Len(sel) |-> Pending]]}
            /\ UNCHANGED <<issues, prs, lastWrite, memo, props>>

\* A call of loadData from a closure that holds the selection sel, up to its
\* return (empty selection, lines 35-40) or its await (line 43).
StartCycle(sel) ==
    /\ started < MaxCycles
    /\ started' = started + 1
    /\ IF Len(sel) = 0
       THEN /\ issues' = <<>>
            /\ prs' = <<>>
            /\ isLoading' = FALSE
            /\ cycles' = cycles
            /\ lastWrite' = [id |-> started + 1, sel |-> sel,
                             issuesData |-> <<>>, prsData |-> <<>>]
            /\ Render(<<>>, <<>>)
       ELSE /\ isLoading' = TRUE
            /\ cycles' = cycles \cup
                  {[id |-> started + 1, sel |-> sel,
                    issuesData |-> [k \in 1..Len(sel) |-> Pending],
                    prsData |-> [k \in 1..Len(sel) |-> Pending]]}
            /\ UNCHANGED <<issues, prs, lastWrite, memo, props>>

Replace(c, d) == cycles' = (cycles \ {c}) \cup {d}

\* getProjectIssues(project.id) resolves, lines 46-50
ResolveIssues(c, k, response) ==
    /\ c \in cycles
    /\ c.issuesData[k].status = "pending"
    /\ Replace(c, [c EXCEPT !.issuesData[k] =
                      [status |-> "ok", value |-> Tagged(response, "issues", c.sel[k])]])
    /\ UNCHANGED <<lifecycle, selectedProjects, onRefresh, timers, issues, prs, isLoading,
                   started, lastWrite, now, memo, props>>

\* getProjectIssues(project.id) rejects, lines 51-54
RejectIssues(c, k) ==
    /\ c \in cycles
    /\ c.issuesData[k].status = "pending"
    /\ Replace(c, [c EXCEPT !.issuesData[k] = [status |-> "failed", value |-> <<>>]])
    /\ UNCHANGED <<lifecycle, selectedProjects, onRefresh, timers, issues, prs, isLoading,
                   started, lastWrite, now, memo, props>>

\* getProjectPRs(project.id) resolves, lines 58-62
ResolvePRs(c, k, response) ==
    /\ c \in cycles
    /\ c.prsData[k].status = "pending"
    /\ Replace(c, [c EXCEPT !.prsData[k] =
                      [status |-> "ok", value |-> Tagged(response, "prs", c.sel[k])]])
    /\ UNCHANGED <<lifecycle, selectedProjects, onRefresh, timers, issues, prs, isLoading,
                   started, lastWrite, now, memo, props>>

\* getProjectPRs(project.id) rejects, lines 63-66
RejectPRs(c, k) ==
    /\ c \in cycles
    /\ c.prsData[k].status = "pending"
    /\ Replace(c, [c EXCEPT !.prsData[k] = [status |-> "failed", value |-> <<>>]])
    /\ UNCHANGED <<lifecycle, selectedProjects, onRefresh, timers, issues, prs, isLoading,
                   started, lastWrite, now, memo, props>>

HasFailure(c) ==
    \/ \E k \in DOMAIN c.issuesData : c.issuesData[k].status = "failed"
    \/ \E k \in DOMAIN c.prsData : c.prsData[k].status = "failed"

\* Complete as it would be without the try/catch around each request: one
\* rejection rejects Promise.all, and the cycle ends in the outer catch.
CompleteAllOrNothing(c) ==
    /\ c \in cycles
    /\ Settled(c)
    /\ cycles' = cycles \ {c}
    /\ IF Mounted /\ ~HasFailure(c)
       THEN \E allIssues \in SortRecords(Flat(Values(c.issuesData))),
               allPRs \in SortRecords(Flat(Values(c.prsData))) :
                /\ issues' = allIssues
                /\ prs' = allPRs
                /\ isLoading' = FALSE
                /\ lastWrite' = c
                /\ Render(allIssues, allPRs)
       ELSE /\ isLoading' = IF Mounted THEN FALSE ELSE isLoading
            /\ UNCHANGED <<issues, prs, lastWrite, memo, props>>
    /\ UNCHANGED <<lifecycle, selectedProjects, onRefresh, timers, started, now>>

\* Complete as it would be if setPrs did not run with setIssues
CompleteIssuesOnly(c) ==
    /\ c \in cycles
    /\ Settled(c)
    /\ cycles' = cycles \ {c}
    /\ IF Mounted
       THEN \E allIssues \in SortRecords(Flat(Values(c.issuesData))) :
                /\ issues' = allIssues
                /\ isLoading' = FALSE
                /\ lastWrite' = c
                /\ Render(allIssues, prs)
                /\ UNCHANGED prs
       ELSE UNCHANGED <<issues, prs, isLoading, lastWrite, memo, props>>
    /\ UNCHANGED <<lifecycle, selectedProjects, onRefresh, timers, started, now>>

\* Complete as it would be if a cycle that is not the latest one discarded
\* its results
CompleteIfLatest(c) ==
    /\ c \in cycles
    /\ Settled(c)
    /\ cycles' = cycles \ {c}
    /\ IF Mounted /\ c.id = started
       THEN \E allIssues \in SortRecords(Flat(Values(c.issuesData))),
               allPRs \in SortRecords(Flat(Values(c.prsData))) :
                /\ issues' = allIssues
                /\ prs' = allPRs
                /\ isLoading' = FALSE
                /\ lastWrite' = c
                /\ Render(allIssues, allPRs)
       ELSE /\ isLoading' = IF Mounted THEN FALSE ELSE isLoading
            /\ UNCHANGED <<issues, prs, lastWrite, memo, props>>
    /\ UNCHANGED <<lifecycle, selectedProjects, onRefresh, timers, started, now>>

\* The continuation after the await, lines 70-87 and 90-92.  The setters of an
\* unmounted component change nothing.
Complete(c) ==
    /\ c \in cycles
    /\ Settled(c)
    /\ cycles' = cycles \ {c}
    /\ IF Mounted
       THEN \E allIssues \in SortRecords(Flat(Values(c.issuesData))),
               allPRs \in SortRecords(Flat(Values(c.prsData))) :
                /\ issues' = allIssues
                /\ prs' = allPRs
                /\ isLoading' = FALSE
                /\ lastWrite' = c
                /\ Render(allIssues, allPRs)
       ELSE UNCHANGED <<issues, prs, isLoading, lastWrite, memo, props>>
    /\ UNCHANGED <<lifecycle, selectedProjects, onRefresh, timers, started, now>>

\* Fault as it would be with setIsLoading(false) at the end of the try block
\* instead of in finally.
FaultWithoutFinally(c) ==
    /\ c \in cycles
    /\ Settled(c)
    /\ cycles' = cycles \ {c}
    /\ UNCHANGED <<lifecycle, selectedProjects, onRefresh, timers, issues, prs, isLoading,
                   started, lastWrite, now, memo, props>>

\* Fault as it would be if the throw came between setIssues and setPrs
FaultAfterSetIssues(c) ==
    /\ c \in cycles
    /\ Settled(c)
    /\ cycles' = cycles \ {c}
    /\ IF Mounted
       THEN \E allIssues \in SortRecords(Flat(Values(c.issuesData))) :
                /\ issues' = allIssues
                /\ isLoading' = FALSE
                /\ Render(allIssues, prs)
                /\ UNCHANGED <<prs, lastWrite>>
       ELSE UNCHANGED <<issues, prs, isLoading, lastWrite, memo, props>>
    /\ UNCHANGED <<lifecycle, selectedProjects, onRefresh, timers, started, now>>

\* The continuation throws before line 86: catch (88-89) and finally (90-92)
Fault(c) ==
    /\ c \in cycles
    /\ Settled(c)
    /\ cycles' = cycles \ {c}
    /\ isLoading' = IF Mounted THEN FALSE ELSE isLoading
    /\ UNCHANGED <<lifecycle, selectedProjects, onRefresh, timers, issues, prs,
                   started, lastWrite, now, memo, props>>

-----------------------------------------------------------------------------
(* The effects, lines 28-30 and 96-103 *)

\* useEffect of lines 96-103 run with the props (sel, registered)
Interval(sel, registered) == IF registered THEN <<sel>> ELSE <<>>

\* The effects of the first render
Mount ==
    /\ lifecycle = "rendered"
    /\ lifecycle' = "mounted"
    /\ StartCycle(selectedProjects)
    /\ timers' = Interval(selectedProjects, onRefresh)
    /\ UNCHANGED <<selectedProjects, onRefresh, now>>

\* SelectProjects as it would be if the effect of lines 96-103 depended on
\* onRefresh only: the timer keeps the loadData of the earlier render
SelectProjectsKeepsTimer(sel) ==
    /\ Mounted
    /\ sel # selectedProjects
    /\ selectedProjects' = sel
    /\ StartCycle(sel)
    /\ UNCHANGED <<lifecycle, onRefresh, timers, now>>

\* The parent passes another selectedProjects array: both effects run again
SelectProjects(sel) ==
    /\ Mounted
    /\ sel # selectedProjects
    /\ selectedProjects' = sel
    /\ StartCycle(sel)
    /\ timers' = Interval(sel, onRefresh)
    /\ UNCHANGED <<lifecycle, onRefresh, now>>

\* The parent registers or removes onRefresh: the effect of lines 96-103 runs again
SetOnRefresh(registered) ==
    /\ Mounted
    /\ registered # onRefresh
    /\ onRefresh' = registered
    /\ timers' = Interval(selectedProjects, registered)
    /\ UNCHANGED <<lifecycle, selectedProjects, issues, prs, isLoading, cycles, started,
                   lastWrite, now, memo, props>>

\* 30 seconds have passed on timer k, lines 98-100
Tick(k) ==
    /\ k \in DOMAIN timers
    /\ StartCycle(timers[k])
    /\ UNCHANGED <<lifecycle, selectedProjects, onRefresh, timers, now>>

\* Unmount as it would be if the effect returned no cleanup
UnmountWithoutCleanup ==
    /\ Mounted
    /\ lifecycle' = "unmounted"
    /\ UNCHANGED <<selectedProjects, onRefresh, timers, issues, prs, isLoading, cycles,
                   started, lastWrite, now, memo, props>>

\* Teardown: the cleanup of lines 96-103 runs
Unmount ==
    /\ Mounted
    /\ lifecycle' = "unmounted"
    /\ timers' = <<>>
    /\ UNCHANGED <<selectedProjects, onRefresh, issues, prs, isLoading, cycles, started,
                   lastWrite, now, memo, props>>

-----------------------------------------------------------------------------
(* The component and its environment *)

\* 2026-11-04 12:00
Noon == <<DayNumber(2026, 10, 4), 12 * MsPerHour>>

\* The state of the first render: the useState defaults of lines 23-25, the
\* memos over the empty collections.
FirstRender(sels, refresh, times) ==
    /\ lifecycle = "rendered"
    /\ selectedProjects \in sels
    /\ onRefresh \in refresh
    /\ timers = <<>>
    /\ issues = <<>>
    /\ prs = <<>>
    /\ isLoading = TRUE
    /\ cycles = {}
    /\ started = 0
    /\ lastWrite = [id |-> 0, sel |-> <<>>, issuesData |-> <<>>, prsData |-> <<>>]
    /\ now \in times
    /\ memo \in {[stats |-> Stats(<<>>, <<>>, now), activities |-> acts,
                  chartData |-> ChartData(<<>>, <<>>, now)] : acts \in Activities(<<>>, <<>>, now)}
    /\ props = [stats |-> MockStats, activities |-> MockActivities, chartData |-> MockChartData]

\* Selections of at most one project, for the interleaving of cycles
SingleSelections == {<<>>, <<1>>, <<2>>}

\* Selections of up to two projects, in both orders
Selections == {<<>>, <<1>>, <<2>>, <<1, 2>>, <<2, 1>>}

\* What the API can answer while cycles interleave
RecentIssue ==
    [github_issue_id |-> 1, state |-> "open", comments_count |-> 2,
     updated_at |-> MinusMs(Noon, MsPerHour), last_seen_at |-> Noon]

RecentPR ==
    [github_pr_id |-> 1, state |-> "open", merged |-> FALSE,
     updated_at |-> MinusMs(Noon, 2 * MsPerHour), last_seen_at |-> Noon]

IssueResponses == {[issues |-> <<RecentIssue>>]}

PRResponses == {[prs |-> <<RecentPR>>]}

Init == FirstRender(SingleSelections, BOOLEAN, {Noon})

Next ==
    \/ Mount
    \/ \E sel \in SingleSelections : SelectProjects(sel)
    \/ \E registered \in BOOLEAN : SetOnRefresh(registered)
    \/ \E k \in DOMAIN timers : Tick(k)
    \/ Unmount
    \/ \E c \in cycles : \E k \in DOMAIN c.issuesData, response \in IssueResponses :
          ResolveIssues(c, k, response)
    \/ \E c \in cycles : \E k \in DOMAIN c.issuesData : RejectIssues(c, k)
    \/ \E c \in cycles : \E k \in DOMAIN c.prsData, response \in PRResponses :
          ResolvePRs(c, k, response)
    \/ \E c \in cycles : \E k \in DOMAIN c.prsData : RejectPRs(c, k)
    \/ \E c \in cycles : Complete(c)
    \/ \E c \in cycles : Fault(c)

Spec == Init /\ [][Next]_vars

\* The continuation of cycle n has run: the cycle is no longer suspended
Continued(n) == (\E c \in cycles : c.id = n) /\ ~(\E c \in cycles' : c.id = n)

\* The event loop runs the continuation of every settled await: weak fairness
\* of the step Complete(c) \/ Fault(c) of each cycle, which is enabled exactly
\* when the cycle is suspended with every request settled.
FairSpec ==
    Spec /\ \A n \in 1..MaxCycles :
               \/ []<>(~\E c \in cycles : c.id = n /\ Settled(c))
               \/ []<><<Continued(n)>>_vars

-----------------------------------------------------------------------------
(* One cycle over the answers the API can give *)

ThreeDaysAgo == MinusDays(Noon, 3)
AnHourAgo == MinusMs(Noon, MsPerHour)

\* no updated_at: the effective timestamp is last_seen_at
Issue1 == [github_issue_id |-> 1, state |-> "open", comments_count |-> 1,
           last_seen_at |-> ThreeDaysAgo]
\* updated_at older than last_seen_at: the effective timestamp is updated_at
Issue2 == [github_issue_id |-> 2, state |-> "open",
           updated_at |-> ThreeDaysAgo, last_seen_at |-> AnHourAgo]
\* already carries a projectName
Issue3 == [github_issue_id |-> 3, state |-> "closed", comments_count |-> 3,
           updated_at |-> AnHourAgo, last_seen_at |-> AnHourAgo, projectName |-> "stale/name"]
\* neither updated_at nor last_seen_at
Issue4 == [github_issue_id |-> 4, state |-> "open", comments_count |-> 0]

PR1 == [github_pr_id |-> 1, state |-> "open", merged |-> FALSE,
        updated_at |-> AnHourAgo, last_seen_at |-> AnHourAgo]
PR2 == [github_pr_id |-> 2, state |-> "closed", merged |-> TRUE,
        last_seen_at |-> ThreeDaysAgo]

\* the last one has no issues property
FetchIssueResponses ==
    {[issues |-> <<Issue1, Issue2>>], [issues |-> <<Issue1>>],
     [issues |-> <<Issue4, Issue3>>], [total |-> 0]}

FetchPRResponses == {[prs |-> <<PR1>>], [prs |-> <<PR2, PR1>>]}

InitFetch == FirstRender(Selections, {FALSE}, {Noon})

NextFetch ==
    \/ Mount
    \/ \E c \in cycles : \E k \in DOMAIN c.issuesData, response \in FetchIssueResponses :
          ResolveIssues(c, k, response)
    \/ \E c \in cycles : \E k \in DOMAIN c.issuesData : RejectIssues(c, k)
    \/ \E c \in cycles : \E k \in DOMAIN c.prsData, response \in FetchPRResponses :
          ResolvePRs(c, k, response)
    \/ \E c \in cycles : \E k \in DOMAIN c.prsData : RejectPRs(c, k)
    \/ \E c \in cycles : Complete(c)

SpecFetch == InitFetch /\ [][NextFetch]_vars

-----------------------------------------------------------------------------
(* Properties of the fetch cycle *)

Range(s) == {s[i] : i \in DOMAIN s}

\* this step runs the continuation of cycle c
Finishes(c) == \A d \in cycles' : d.id # c.id

\* list holds exactly the records of the lists of data, each once
SameRecords(list, data) ==
    LET all == Flat([k \in DOMAIN data |->
                        IF data[k].status = "ok" THEN data[k].value ELSE <<>>])
    IN  Len(list) = Len(all) /\ Range(list) = Range(all)

\* C1: when a cycle over a non-empty selection in which some request was
\* rejected runs its continuation, it still writes the unified collections
\* and clears the flag: issues and prs then hold exactly the records of the
\* requests that resolved, every other project's and the same project's other
\* record type, the rejected request counting as an empty list.
FetchFailureIsolated ==
    [][\A c \in cycles :
          (Finishes(c) /\ HasFailure(c)) =>
              /\ isLoading' = FALSE
              /\ lastWrite' = c
              /\ SameRecords(issues', c.issuesData)
              /\ SameRecords(prs', c.prsData)]_vars

\* A cycle over <<1, 2>> whose issues request for project 1 was rejected has
\* written project 2's issues and project 1's PRs.
FetchFailureIsolatedWitness ==
    /\ lastWrite.id > 0
    /\ lastWrite.sel = <<1, 2>>
    /\ lastWrite.issuesData[1].status = "failed"
    /\ lastWrite.issuesData[2].status = "ok"
    /\ lastWrite.prsData[1].status = "ok"
    /\ \E i \in DOMAIN issues : issues[i].projectName = FullName(2)
    /\ \E i \in DOMAIN prs : prs[i].projectName = FullName(1)
    /\ ~isLoading

-----------------------------------------------------------------------------
(* Properties of the loading flag *)

InFlight(n) == \E c \in cycles : c.id = n

AllSettled(n) == \E c \in cycles : c.id = n /\ Settled(c)

\* C2: a call of loadData leaves isLoading true when it goes on to fetch and
\* false when the selection is empty; the continuation of a cycle, on the
\* success path and on the failure path, leaves isLoading false (while the
\* component is mounted); and a cycle whose requests have all settled
\* eventually runs its continuation.
LoadingFlagToggled ==
    /\ [][/\ started' # started => isLoading' = (cycles' # cycles)
          /\ \A c \in cycles : (Finishes(c) /\ Mounted) => isLoading' = FALSE]_vars
    /\ \A n \in 1..MaxCycles :
          AllSettled(n) ~> (~InFlight(n) /\ (Mounted => ~isLoading))

\* The only cycle so far ran over a non-empty selection and ended on the
\* failure path (nothing was written), and the flag is cleared.
LoadingFlagToggledWitness ==
    /\ Mounted
    /\ started = 1
    /\ cycles = {}
    /\ lastWrite.id = 0
    /\ ~isLoading

-----------------------------------------------------------------------------
(* Properties of the order of the unified collections *)

Known(r) == ~IsNaN(EffectiveTime(r))

\* the position of record r in the flattened array
PositionIn(flat, r) == CHOOSE i \in DOMAIN flat : flat[i] = r

\* list is non-increasing in effective timestamp, and records of equal
\* effective timestamp stand in the order they have in flat
SortedStable(list, flat) ==
    \A i, j \in DOMAIN list :
        (i < j /\ Known(list[i]) /\ Known(list[j])) =>
            /\ ~Before(EffectiveTime(list[i]), EffectiveTime(list[j]))
            /\ EffectiveTime(list[i]) = EffectiveTime(list[j]) =>
                   PositionIn(flat, list[i]) < PositionIn(flat, list[j])

\* C3: once a cycle has written them, the unified issues collection and the
\* unified PR collection are each non-increasing in effective timestamp, and
\* two records of equal effective timestamp keep the order they had after
\* flattening (selected-project order, then response order).
UnifiedSortedStable ==
    lastWrite.id > 0 =>
        /\ SortedStable(issues, Flat(Values(lastWrite.issuesData)))
        /\ SortedStable(prs, Flat(Values(lastWrite.prsData)))

-----------------------------------------------------------------------------
(* Properties of what the presentation components receive *)

\* the empty-input results: zero values, no activity, six zero points
EmptyResults(out) ==
    /\ Len(out.stats) = 5
    /\ \A k \in DOMAIN out.stats : out.stats[k].value = 0
    /\ out.activities = <<>>
    /\ Len(out.chartData) = 6
    /\ \A k \in DOMAIN out.chartData :
          out.chartData[k].applications = 0 /\ out.chartData[k].merged = 0

\* the unified collections are those written by a cycle over no project
EmptySelectionShown ==
    Mounted /\ selectedProjects = <<>> /\ lastWrite.id > 0 /\ lastWrite.sel = <<>>

\* C4: with zero selected projects, what is handed to the presentation
\* components is the empty-input result of the aggregation (every stats
\* value zero, no activities, six chart points of zero applications and zero
\* merged), and isLoading is false.
EmptySelectionEmptyOutputs ==
    EmptySelectionShown => (EmptyResults(props) /\ ~isLoading)

-----------------------------------------------------------------------------
(* One cycle over one project, for the stats of lines 106-165 *)

\* the arrays of at most n distinct records of pool, in any order
ListsOver(pool, n) ==
    UNION {{s \in [1..k -> pool] : \A a, b \in 1..k : s[a] = s[b] => a = b} : k \in 0..n}

SevenDaysBeforeNoon == MinusDays(Noon, 7)

\* the evaluation times: noon, and one millisecond later
StatsTimes == {Noon, <<Noon[1], Noon[2] + 1>>}

StatsIssues ==
    {[github_issue_id |-> 1, comments_count |-> 2, updated_at |-> SevenDaysBeforeNoon],
     [github_issue_id |-> 2, comments_count |-> 3,
      updated_at |-> <<SevenDaysBeforeNoon[1], SevenDaysBeforeNoon[2] - 1>>],
     [github_issue_id |-> 3, comments_count |-> 4,
      updated_at |-> <<SevenDaysBeforeNoon[1], SevenDaysBeforeNoon[2] + 1>>],
     [github_issue_id |-> 4, last_seen_at |-> AnHourAgo],
     [github_issue_id |-> 5, comments_count |-> 1, updated_at |-> <<Noon[1], Noon[2] + 1>>],
     [github_issue_id |-> 6, comments_count |-> 5,
      updated_at |-> MinusDays(Noon, 8), last_seen_at |-> AnHourAgo]}

StatsPRs ==
    {[github_pr_id |-> 1, state |-> "open", merged |-> FALSE, updated_at |-> SevenDaysBeforeNoon],
     [github_pr_id |-> 2, state |-> "closed", merged |-> TRUE,
      updated_at |-> <<SevenDaysBeforeNoon[1], SevenDaysBeforeNoon[2] - 1>>],
     [github_pr_id |-> 3, state |-> "closed", merged |-> TRUE,
      updated_at |-> <<SevenDaysBeforeNoon[1], SevenDaysBeforeNoon[2] + 1>>],
     [github_pr_id |-> 4, state |-> "open", merged |-> FALSE, last_seen_at |-> AnHourAgo],
     [github_pr_id |-> 5, state |-> "open", merged |-> TRUE,
      updated_at |-> <<Noon[1], Noon[2] + 1>>]}

StatsIssueResponses == {[issues |-> list] : list \in ListsOver(StatsIssues, MaxLen)}

StatsPRResponses == {[prs |-> list] : list \in ListsOver(StatsPRs, MaxLen)}

InitStats == FirstRender({<<1>>}, {FALSE}, StatsTimes)

NextStats ==
    \/ Mount
    \/ \E c \in cycles : \E k \in DOMAIN c.issuesData, response \in StatsIssueResponses :
          ResolveIssues(c, k, response)
    \/ \E c \in cycles : \E k \in DOMAIN c.prsData, response \in StatsPRResponses :
          ResolvePRs(c, k, response)
    \/ \E c \in cycles : Complete(c)

SpecStats == InitStats /\ [][NextStats]_vars

-----------------------------------------------------------------------------
(* Properties of the stats *)

\* the instant seven days before t, and the millisecond before an instant
SevenDaysBefore(t) == <<t[1] - 7, t[2]>>

OneMsBefore(t) == IF t[2] > 0 THEN <<t[1], t[2] - 1>> ELSE <<t[1] - 1, MsPerDay - 1>>

\* now - 7 days <= effective timestamp < now
InWindow(r, t) ==
    /\ Known(r)
    /\ ~Before(EffectiveTime(r), SevenDaysBefore(t))
    /\ Before(EffectiveTime(r), t)

NumberOpen(list) == Cardinality({k \in DOMAIN list : list[k].state = "open"})

NumberMerged(list) == Cardinality({k \in DOMAIN list : list[k].merged = TRUE})

\* C5: the stats are exactly five metrics, Repository Views, Issue Views,
\* Issue Applications, Pull Requests Opened, Pull Requests Merged in this
\* order; Repository Views is 0 and the others are the number of issues, the
\* sum of their comments_count (absent: 0), the number of open PRs and the
\* number of merged PRs among the records whose effective timestamp t
\* satisfies now - 7 days <= t < now; a record at or after now is not counted.
StatsOverWindow ==
    lastWrite.id > 0 =>
        LET windowIssues == SelectSeq(issues, LAMBDA r : InWindow(r, now))
            windowPRs == SelectSeq(prs, LAMBDA r : InWindow(r, now))
        IN  /\ Len(memo.stats) = 5
            /\ [k \in 1..5 |-> memo.stats[k].title] =
                  <<"Repository Views", "Issue Views", "Issue Applications",
                    "Pull Requests Opened", "Pull Requests Merged">>
            /\ [k \in 1..5 |-> memo.stats[k].value] =
                  <<0, Len(windowIssues), SumComments(windowIssues),
                    NumberOpen(windowPRs), NumberMerged(windowPRs)>>

\* C6: a record whose effective timestamp is exactly now - 7 days is counted
\* and one at now - 7 days - 1 ms is not: each metric is what the stats of the
\* other records give, plus the issues at exactly now - 7 days (Issue Views),
\* plus their comments_count (Issue Applications), plus the open PRs at
\* exactly now - 7 days (opened), plus the merged ones (merged).
StatsLowerBoundary ==
    lastWrite.id > 0 =>
        LET AtBoundary(r) == EffectiveTime(r) = SevenDaysBefore(now)
            JustBefore(r) == EffectiveTime(r) = OneMsBefore(SevenDaysBefore(now))
            boundaryIssues == SelectSeq(issues, LAMBDA r : AtBoundary(r))
            boundaryPRs == SelectSeq(prs, LAMBDA r : AtBoundary(r))
            others == Stats(SelectSeq(issues, LAMBDA r : ~AtBoundary(r) /\ ~JustBefore(r)),
                            SelectSeq(prs, LAMBDA r : ~AtBoundary(r) /\ ~JustBefore(r)), now)
        IN  /\ memo.stats[2].value = others[2].value + Len(boundaryIssues)
            /\ memo.stats[3].value = others[3].value + SumComments(boundaryIssues)
            /\ memo.stats[4].value = others[4].value + NumberOpen(boundaryPRs)
            /\ memo.stats[5].value = others[5].value + NumberMerged(boundaryPRs)

\* At noon the collections hold an issue and an open PR of exactly seven days
\* ago and an issue and a merged PR of one millisecond earlier: one issue
\* with its 2 comments and one opened PR are counted, no merged PR.
StatsLowerBoundaryWitness ==
    /\ lastWrite.id > 0
    /\ now = Noon
    /\ {issues[k].github_issue_id : k \in DOMAIN issues} = {1, 2}
    /\ {prs[k].github_pr_id : k \in DOMAIN prs} = {1, 2}
    /\ [k \in 1..5 |-> memo.stats[k].value] = <<0, 1, 2, 1, 0>>

-----------------------------------------------------------------------------
(* One cycle over one project, for the chart of lines 248-274 *)

LastMs == MsPerDay - 1

\* the evaluation times: 2026-11-04 12:00, 2027-01-15 00:00, the first
\* instant of October 2026
ChartTimes == {Noon, <<DayNumber(2027, 0, 15), 0>>, <<DayNumber(2026, 9, 1), 0>>}

\* issues at the first instant of June 2026, December 2026 and January 2027,
\* at the millisecond before each, and one with no timestamp
ChartIssues ==
    {[github_issue_id |-> 1, comments_count |-> 1, updated_at |-> <<DayNumber(2026, 5, 1), 0>>],
     [github_issue_id |-> 2, comments_count |-> 2, updated_at |-> <<DayNumber(2026, 4, 31), LastMs>>],
     [github_issue_id |-> 3, comments_count |-> 4, updated_at |-> <<DayNumber(2026, 11, 1), 0>>],
     [github_issue_id |-> 4, comments_count |-> 8, updated_at |-> <<DayNumber(2026, 10, 30), LastMs>>],
     [github_issue_id |-> 5, comments_count |-> 16, last_seen_at |-> <<DayNumber(2027, 0, 1), 0>>],
     [github_issue_id |-> 6, comments_count |-> 32, updated_at |-> <<DayNumber(2026, 11, 31), LastMs>>],
     [github_issue_id |-> 7, comments_count |-> 64]}

\* PRs at the last millisecond of October 2026 and at the first instant of
\* November 2026
ChartPRs ==
    {[github_pr_id |-> 1, state |-> "closed", merged |-> TRUE,
      updated_at |-> <<DayNumber(2026, 9, 31), LastMs>>],
     [github_pr_id |-> 2, state |-> "closed", merged |-> TRUE,
      last_seen_at |-> <<DayNumber(2026, 10, 1), 0>>],
     [github_pr_id |-> 3, state |-> "open", merged |-> FALSE,
      updated_at |-> <<DayNumber(2026, 10, 1), 0>>]}

ChartIssueResponses == {[issues |-> list] : list \in ListsOver(ChartIssues, MaxLen)}

ChartPRResponses == {[prs |-> list] : list \in ListsOver(ChartPRs, MaxLen)}

InitChart == FirstRender({<<1>>}, {FALSE}, ChartTimes)

NextChart ==
    \/ Mount
    \/ \E c \in cycles : \E k \in DOMAIN c.issuesData, response \in ChartIssueResponses :
          ResolveIssues(c, k, response)
    \/ \E c \in cycles : \E k \in DOMAIN c.prsData, response \in ChartPRResponses :
          ResolvePRs(c, k, response)
    \/ \E c \in cycles : Complete(c)

SpecChart == InitChart /\ [][NextChart]_vars

-----------------------------------------------------------------------------
(* Properties of the chart *)

ShortMonthNames ==
    <<"Jan", "Feb", "Mar", "Apr", "May", "Jun", "Jul", "Aug", "Sep", "Oct", "Nov", "Dec">>

\* the calendar month of an instant, counted in months
MonthIndex(t) == getFullYear(t) * 12 + getMonth(t)

\* the effective timestamp of r lies in the calendar month of index mi
InCalendarMonth(r, mi) == Known(r) /\ MonthIndex(EffectiveTime(r)) = mi

\* C7: the chart is exactly 6 points in chronological order; point i (0..5)
\* covers the calendar month 5 - i months before the month of now, that is,
\* its applications and merged are those of the records of that month; and
\* its label is the short name of that month.
ChartCoversTrailingMonths ==
    lastWrite.id > 0 =>
        /\ Len(memo.chartData) = 6
        /\ \A last \in {MonthIndex(now)} : \A i \in 0..5 :
              LET covered == last - (5 - i)
                  point == memo.chartData[i + 1]
              IN  /\ point.applications =
                        SumComments(SelectSeq(issues, LAMBDA r : InCalendarMonth(r, covered)))
                  /\ point.merged =
                        NumberMerged(SelectSeq(prs, LAMBDA r : InCalendarMonth(r, covered)))
                  /\ point.month = ShortMonthNames[(covered % 12) + 1]

\* the effective timestamp of r lies in the span of the chart whose last
\* month is the calendar month of index last: from the start of the month 5
\* months before it up to the start of the month after it
InSpan(r, last) ==
    Known(r) /\ MonthIndex(EffectiveTime(r)) \in (last - 5)..last

\* the buckets that take record r in the chart evaluated in month m of year y
BucketsOf(r, y, m) ==
    {index \in 0..5 : InMonth(r, monthDate(index, y, m), nextMonth(index, y, m))}

\* C8: the applications of the 6 points add up to the comments_count of
\* exactly the issues whose effective timestamp lies in the span, and the
\* merged counts to the number of merged PRs in the span; every record in
\* the span falls into exactly one bucket and every other record into none.
ChartPartitionsSpan ==
    lastWrite.id > 0 =>
        \A y \in {getFullYear(now)}, m \in {getMonth(now)} :
            LET chart == memo.chartData
                last == y * 12 + m
            IN  /\ chart[1].applications + chart[2].applications + chart[3].applications
                    + chart[4].applications + chart[5].applications + chart[6].applications
                      = SumComments(SelectSeq(issues, LAMBDA r : InSpan(r, last)))
                /\ chart[1].merged + chart[2].merged + chart[3].merged
                    + chart[4].merged + chart[5].merged + chart[6].merged
                      = NumberMerged(SelectSeq(prs, LAMBDA r : InSpan(r, last)))
                /\ \A r \in Range(issues) \cup Range(prs) :
                      Cardinality(BucketsOf(r, y, m)) = IF InSpan(r, last) THEN 1 ELSE 0

\* Evaluated on 2027-01-15: the issue of the first instant of December 2026
\* is in the fifth point only, the issue of the millisecond before in the
\* fourth only.
ChartPartitionsSpanWitness ==
    /\ lastWrite.id > 0
    /\ now = <<DayNumber(2027, 0, 15), 0>>
    /\ {issues[k].github_issue_id : k \in DOMAIN issues} = {3, 4}
    /\ [k \in 1..6 |-> memo.chartData[k].applications] = <<0, 0, 0, 8, 4, 0>>

-----------------------------------------------------------------------------
(* One cycle over one project, for the activities of lines 168-207 *)

\* the issue that is age units old at noon; the unit is a minute, five hours
\* or a week
FeedIssue(id, age, unit) ==
    [github_issue_id |-> id,
     comments_count |-> age % 3,
     updated_at |-> IF unit = "minute" THEN MinusMs(Noon, age * MsPerMinute)
                    ELSE IF unit = "hours" THEN MinusMs(Noon, age * 5 * MsPerHour)
                    ELSE MinusDays(Noon, age * 7)]

\* n issues, the oldest first
FeedIssueList(n, unit) == [k \in 1..n |-> FeedIssue(k, n + 1 - k, unit)]

\* the instants where the label changes (a minute, an hour, a day, 30 and 60
\* days before noon), the millisecond after each, and noon itself
FeedEdges ==
    <<Noon, MinusMs(Noon, MsPerMinute - 1), MinusMs(Noon, MsPerMinute),
      MinusMs(Noon, MsPerHour - 1), MinusMs(Noon, MsPerHour),
      MinusMs(Noon, MsPerDay - 1), MinusDays(Noon, 1),
      <<Noon[1] - 30, Noon[2] + 1>>, MinusDays(Noon, 30),
      <<Noon[1] - 60, Noon[2] + 1>>, MinusDays(Noon, 60)>>

\* one issue at each of these instants
FeedEdgeIssues ==
    [k \in DOMAIN FeedEdges |->
        [github_issue_id |-> 20 + k, comments_count |-> 0, last_seen_at |-> FeedEdges[k]]]

FeedIssueResponses ==
    {[issues |-> FeedIssueList(n, unit)] :
        n \in {0, 3, FeedLen - 5, FeedLen}, unit \in {"minute", "hours", "week"}}
        \cup {[issues |-> FeedEdgeIssues]}

\* PRs of 30 seconds, 90 seconds, 100 seconds, 90 minutes, 2 days and 45 days
\* ago, one dated an hour after noon and one with no timestamp
FeedPRs ==
    {[github_pr_id |-> 1, state |-> "open", merged |-> FALSE, updated_at |-> MinusMs(Noon, 30000)],
     [github_pr_id |-> 2, state |-> "closed", merged |-> TRUE, updated_at |-> MinusMs(Noon, 90000)],
     [github_pr_id |-> 3, state |-> "closed", merged |-> FALSE,
      last_seen_at |-> MinusMs(Noon, 100000)],
     [github_pr_id |-> 4, state |-> "open", merged |-> FALSE,
      updated_at |-> MinusMs(Noon, 90 * MsPerMinute)],
     [github_pr_id |-> 5, state |-> "closed", merged |-> TRUE, updated_at |-> MinusDays(Noon, 2)],
     [github_pr_id |-> 6, state |-> "closed", merged |-> TRUE, updated_at |-> MinusDays(Noon, 45)],
     [github_pr_id |-> 7, state |-> "open", merged |-> FALSE,
      updated_at |-> <<Noon[1], Noon[2] + MsPerHour>>],
     [github_pr_id |-> 8, state |-> "open", merged |-> FALSE]}

FeedPRResponses == {[prs |-> list] : list \in ListsOver(FeedPRs, MaxLen)}

InitFeed == FirstRender({<<1>>}, {FALSE}, {Noon})

NextFeed ==
    \/ Mount
    \/ \E c \in cycles : \E k \in DOMAIN c.issuesData, response \in FeedIssueResponses :
          ResolveIssues(c, k, response)
    \/ \E c \in cycles : \E k \in DOMAIN c.prsData, response \in FeedPRResponses :
          ResolvePRs(c, k, response)
    \/ \E c \in cycles : Complete(c)

SpecFeed == InitFeed /\ [][NextFeed]_vars

-----------------------------------------------------------------------------
(* Properties of the activity feed *)

\* the entries of the first 10 PRs and of the first 10 issues
Candidates ==
    {PrActivity(prs[k], now) : k \in {i \in DOMAIN prs : i <= 10}}
        \cup {IssueActivity(issues[k], now) : k \in {i \in DOMAIN issues : i <= 10}}

\* the approximate timestamp recovered from the label of an entry
Approximate(entry) == parseTimeAgo(entry.timeAgo, now)

\* C9: the feed has at most 5 entries (5, or every candidate when there are
\* fewer), each the entry of one of the first 10 PRs or first 10 issues; the
\* entries are non-increasing in the approximate timestamp recovered from
\* their label; and no candidate left out is strictly more recent, by that
\* timestamp, than an entry of the feed.
FeedIsTopFive ==
    lastWrite.id > 0 =>
        \A feed \in {memo.activities}, candidates \in {Candidates} :
            /\ Len(feed) <= 5
            /\ Len(feed) = IF Cardinality(candidates) < 5 THEN Cardinality(candidates) ELSE 5
            /\ \A i \in DOMAIN feed : feed[i] \in candidates
            /\ \A i, j \in DOMAIN feed : i # j => feed[i] # feed[j]
            /\ \A i, j \in DOMAIN feed :
                  i < j => ~Before(Approximate(feed[i]), Approximate(feed[j]))
            /\ \A out \in candidates \ Range(feed) : \A i \in DOMAIN feed :
                  ~Before(Approximate(feed[i]), Approximate(out))

\* Eleven issues, one to eleven minutes old, and the PRs of 90 seconds and
\* of 2 days ago: the feed is the PR and the issue of one minute ago, then
\* the issues of 2, 3 and 4 minutes ago; the other PR and six of the first
\* ten issues are left out.
FeedIsTopFiveWitness ==
    /\ lastWrite.id > 0
    /\ Len(issues) = FeedLen
    /\ {prs[k].github_pr_id : k \in DOMAIN prs} = {2, 5}
    /\ Len(memo.activities) = 5
    /\ [k \in 1..5 |-> memo.activities[k].type] = <<"pr", "issue", "issue", "issue", "issue">>
    /\ memo.activities[1].timeAgo = [count |-> <<1>>, word |-> "minute"]
    /\ memo.activities[5].timeAgo = [count |-> <<4>>, word |-> "minutes"]

-----------------------------------------------------------------------------
(* Properties of records with neither timestamp *)

\* no record without a timestamp stands before one with a timestamp
UnknownLast(list) ==
    \A i, j \in DOMAIN list : i < j => (Known(list[i]) \/ ~Known(list[j]))

\* the entry of a record with neither timestamp: its label is 'NaN months ago'
UnknownEntry(entry) == Has(entry.timeAgo, "count") /\ entry.timeAgo.count = NaN

\* C10: a record with neither updated_at nor last_seen_at makes no stage
\* fail (the cycle writes the collections and the stats, the feed and the
\* chart have their shape) and is ordered last: in the unified collections
\* it comes after every record with a known effective timestamp, and in the
\* feed its approximate timestamp is not more recent than that of an entry
\* with a known timestamp, so that it stands after every such entry.
UnknownTimestampLast ==
    lastWrite.id > 0 =>
        /\ Len(memo.stats) = 5 /\ Len(memo.chartData) = 6 /\ Len(memo.activities) <= 5
        /\ UnknownLast(issues)
        /\ UnknownLast(prs)
        /\ \A i, j \in DOMAIN memo.activities :
              (UnknownEntry(memo.activities[i]) /\ ~UnknownEntry(memo.activities[j])) =>
                  /\ i > j
                  /\ ~Before(Approximate(memo.activities[j]), Approximate(memo.activities[i]))

-----------------------------------------------------------------------------
(* Properties of the unexpected failure *)

\* C11: the continuation of a cycle ends in one of two ways only.  Either it
\* writes both unified collections, each with the records of this cycle, or
\* (the unexpected failure, caught at line 88) it writes neither: issues and
\* prs keep the values they had, so never one is updated without the other.
\* In both cases the call returns (the cycle is no longer suspended) and,
\* the component being mounted, isLoading is false.
FailureLeavesStateUnchanged ==
    [][\A c \in cycles :
          Finishes(c) =>
              /\ Mounted => isLoading' = FALSE
              /\ \/ /\ lastWrite' = c
                    /\ SameRecords(issues', c.issuesData)
                    /\ SameRecords(prs', c.prsData)
                 \/ /\ lastWrite' = lastWrite
                    /\ issues' = issues
                    /\ prs' = prs]_vars

\* Two cycles over a project have ended on a mounted component and neither
\* has written: both failed, the collections are still the initial ones and
\* the flag is cleared.
FailureLeavesStateUnchangedWitness ==
    /\ Mounted
    /\ started = 2
    /\ cycles = {}
    /\ lastWrite.id = 0
    /\ issues = <<>> /\ prs = <<>>
    /\ ~isLoading

-----------------------------------------------------------------------------
(* Properties of the refresh timer *)

\* this step is a timer tick: a call of loadData that comes neither from the
\* mount nor from a change of the selection
TimerStartsCycle ==
    started' # started /\ lifecycle' = lifecycle /\ selectedProjects' = selectedProjects

\* C12: exactly one timer is active while the component is mounted with a
\* refresh callback registered and none otherwise (so never more than one),
\* and a timer starts a cycle only on a mounted component with a callback
\* registered: never after teardown, never after the callback was removed.
TimerLifecycle ==
    /\ [](Len(timers) = IF Mounted /\ onRefresh THEN 1 ELSE 0)
    /\ [][TimerStartsCycle => (Mounted /\ onRefresh)]_vars

\* The component was torn down with a callback registered, after two cycles
\* over the empty selection: no timer is left.
TimerLifecycleWitness ==
    /\ lifecycle = "unmounted"
    /\ onRefresh
    /\ started = 2
    /\ selectedProjects = <<>>
    /\ lastWrite.id = 2
    /\ timers = <<>>

-----------------------------------------------------------------------------
(* Properties of formatTimeAgo and parseTimeAgo *)

\* the effective timestamps of the unified collections that are at or before now
PastTimes ==
    {EffectiveTime(r) : r \in {x \in Range(issues) \cup Range(prs) :
                                  Known(x) /\ ~Before(now, EffectiveTime(x))}}

\* C13: for a timestamp t at or before now, the timestamp parseTimeAgo
\* recovers from the label of t gets the same label from formatTimeAgo, is
\* not later than now, and is not earlier than t (hence not earlier than the
\* start of the bucket of t).
TimeAgoRoundTrip ==
    lastWrite.id > 0 =>
        \A t \in PastTimes : \A label \in {formatTimeAgo(t, now)} :
            \A recovered \in {parseTimeAgo(label, now)} :
                /\ formatTimeAgo(recovered, now) = label
                /\ ~Before(now, recovered)
                /\ ~Before(recovered, t)

\* The collections hold the issues at the instants where the label changes:
\* the one of an hour ago less a millisecond is labelled '59 minutes ago'
\* and the one of 30 days ago '1 month ago'.
TimeAgoRoundTripWitness ==
    /\ lastWrite.id > 0
    /\ Len(issues) = Len(FeedEdges)
    /\ \A k \in DOMAIN FeedEdges : FeedEdges[k] \in PastTimes
    /\ formatTimeAgo(FeedEdges[4], now) = [count |-> <<59>>, word |-> "minutes"]
    /\ formatTimeAgo(FeedEdges[9], now) = [count |-> <<1>>, word |-> "month"]
    /\ parseTimeAgo(formatTimeAgo(FeedEdges[10], now), now) = FeedEdges[9]

-----------------------------------------------------------------------------
(* Properties of the empty selection *)

\* C14: a call of loadData with an empty selection suspends on no request
\* and, in the same step, leaves both unified collections empty and
\* isLoading false, whatever the collections held.
EmptySelectionShortCircuit ==
    [][(started' # started /\ selectedProjects' = <<>>) =>
          /\ cycles' = cycles
          /\ issues' = <<>>
          /\ prs' = <<>>
          /\ isLoading' = FALSE]_vars

\* The second call ran with the empty selection while the first cycle was
\* still fetching: it added no request, the collections are empty and the
\* flag is cleared.
EmptySelectionShortCircuitWitness ==
    /\ Mounted
    /\ started = 2
    /\ selectedProjects = <<>>
    /\ lastWrite.id = 2
    /\ Cardinality(cycles) = 1
    /\ issues = <<>> /\ prs = <<>>
    /\ ~isLoading

-----------------------------------------------------------------------------
(* Properties of the project tag *)

\* every record of list came back from one of the requests of data, and
\* carries the github_full_name of the project of that request
TaggedByOrigin(list, data, sel) ==
    /\ \A r \in Range(list) :
          \E k \in DOMAIN sel : r \in Range(data[k].value) /\ r.projectName = FullName(sel[k])
    /\ \A k \in DOMAIN sel : \A r \in Range(data[k].value) :
          r \in Range(list) /\ r.projectName = FullName(sel[k])

\* C15: in every state, every record of the unified issues and PR
\* collections carries as projectName the github_full_name of the project
\* whose request returned it, also when the fetched record had a projectName
\* of its own.
ProjectNameOfOrigin ==
    /\ TaggedByOrigin(issues, lastWrite.issuesData, lastWrite.sel)
    /\ TaggedByOrigin(prs, lastWrite.prsData, lastWrite.sel)

\* The issue that came with projectName 'stale/name' from the request of the
\* second selected project, project 1, carries 'org/one'.
ProjectNameOfOriginWitness ==
    /\ lastWrite.id > 0
    /\ lastWrite.sel = <<2, 1>>
    /\ \E i \in DOMAIN issues :
          issues[i].github_issue_id = 3 /\ issues[i].projectName = "org/one"
    /\ \E i \in DOMAIN issues : issues[i].projectName = "org/two"
    /\ \E i \in DOMAIN prs : prs[i].projectName = "org/one"

-----------------------------------------------------------------------------
(* Properties of the change indicators *)

ChangeValues == {0, 100, -100}

\* C16: every change is 0, +100 or -100, and for each of Issue Views, Issue
\* Applications, Pull Requests Opened and Pull Requests Merged the change is
\* +100 when the value is greater than 0 and 0 when the value is 0.
ChangeSignalsPositive ==
    /\ \A k \in DOMAIN memo.stats : memo.stats[k].change \in ChangeValues
    /\ \A k \in 2..5 :
          memo.stats[k].change = IF memo.stats[k].value > 0 THEN 100 ELSE 0

\* C16 as amended: every change is 0, +100 or -100; the change of Pull
\* Requests Opened and of Pull Requests Merged is +100 when the value is
\* greater than 0 and 0 when it is 0; the change of Issue Views and of Issue
\* Applications is 0 whatever the value, and that of Repository Views -100.
ChangeSignalsPositivePRs ==
    /\ \A k \in DOMAIN memo.stats : memo.stats[k].change \in ChangeValues
    /\ memo.stats[1].change = -100
    /\ \A k \in 2..3 : memo.stats[k].change = 0
    /\ \A k \in 4..5 :
          memo.stats[k].change = IF memo.stats[k].value > 0 THEN 100 ELSE 0

\* One issue with comments and one open, unmerged PR are in the window: the
\* issue metrics are positive with change 0, opened is 1 with change +100,
\* merged is 0 with change 0.
ChangeSignalsPositivePRsWitness ==
    /\ lastWrite.id > 0
    /\ memo.stats[2].value = 1 /\ memo.stats[2].change = 0
    /\ memo.stats[3].value > 0 /\ memo.stats[3].change = 0
    /\ memo.stats[4].value = 1 /\ memo.stats[4].change = 100
    /\ memo.stats[5].value = 0 /\ memo.stats[5].change = 0

-----------------------------------------------------------------------------
(* Overlapping cycles: the selection changes while a cycle is fetching *)

InitRace == FirstRender(SingleSelections, {FALSE}, {Noon})

NextRace ==
    \/ Mount
    \/ \E sel \in SingleSelections : SelectProjects(sel)
    \/ \E c \in cycles : \E k \in DOMAIN c.issuesData, response \in IssueResponses :
          ResolveIssues(c, k, response)
    \/ \E c \in cycles : \E k \in DOMAIN c.issuesData : RejectIssues(c, k)
    \/ \E c \in cycles : \E k \in DOMAIN c.prsData, response \in PRResponses :
          ResolvePRs(c, k, response)
    \/ \E c \in cycles : \E k \in DOMAIN c.prsData : RejectPRs(c, k)
    \/ \E c \in cycles : Complete(c)

SpecRace == InitRace /\ [][NextRace]_vars

\* C17: nothing cancels or orders overlapping cycles: the continuation of
\* every cycle writes the unified collections with its own results, whether
\* or not its selection is still the current one and whether or not a cycle
\* triggered later has already written; so the cycle that resolves last wins.
StaleCycleOverwrites ==
    [][\A c \in cycles :
          Finishes(c) =>
              /\ lastWrite' = c
              /\ SameRecords(issues', c.issuesData)
              /\ SameRecords(prs', c.prsData)]_vars

\* Every cycle has completed, the selection is project 2, and the unified
\* collections hold the records of project 1, written by the first cycle
\* after the second.
StaleCycleOverwritesWitness ==
    /\ started = 2
    /\ cycles = {}
    /\ selectedProjects = <<2>>
    /\ lastWrite.id = 1
    /\ lastWrite.sel = <<1>>
    /\ Len(issues) = 1 /\ issues[1].projectName = FullName(1)
    /\ Len(prs) = 1 /\ prs[1].projectName = FullName(1)
    /\ ~isLoading

-----------------------------------------------------------------------------
(* Properties of what triggers a cycle *)

-----------------------------------------------------------------------------
(* Properties of the pair of unified collections *)

\* C19: in every state, under every interleaving of overlapping cycles, the
\* unified issues collection and the unified PR collection come from the
\* same cycle, the one that wrote last: issues holds the records of its
\* issue requests and prs the records of its PR requests.
CollectionsFromOneCycle ==
    /\ SameRecords(issues, lastWrite.issuesData)
    /\ SameRecords(prs, lastWrite.prsData)

\* The second cycle, over project 2, has written its issue and its PR while
\* the first cycle, over project 1, is still suspended with a request
\* resolved.
CollectionsFromOneCycleWitness ==
    /\ Mounted
    /\ lastWrite.id = 2
    /\ \E c \in cycles : c.id = 1 /\ c.sel = <<1>> /\ c.issuesData[1].status = "ok"
    /\ Len(issues) = 1 /\ issues[1].projectName = FullName(2)
    /\ Len(prs) = 1 /\ prs[1].projectName = FullName(2)

-----------------------------------------------------------------------------
(* Properties of the loading flag under overlapping cycles *)

Fetching(c) ==
    \/ \E k \in DOMAIN c.issuesData : c.issuesData[k] = Pending
    \/ \E k \in DOMAIN c.prsData : c.prsData[k] = Pending

\* C20: while the component is mounted and a first cycle has started,
\* isLoading is false only when no cycle has a request still in flight: a
\* cycle that ends while another one is still fetching does not clear the
\* flag.
LoadingWhileFetching ==
    (Mounted /\ started > 0 /\ ~isLoading) => \A c \in cycles : ~Fetching(c)

=============================================================================
